---- MODULE Spec2Model ----
(***************************************************************************)
(* Request execution, concurrency bounding and L1 caching of the music     *)
(* API core: Semaphore, HttpClient.batchRequest / BasePlatformAdapter      *)
(* batch operations, HttpClient.requestWithRetry and MemoryCache, and the  *)
(* orchestration of the provider adapters by AdapterManager.               *)
(*                                                                         *)
(* Each component has its own specification (SpecGate, SpecBatch,          *)
(* SpecRetry, SpecCache, SpecDispatch, SpecFallback, SpecFan, SpecHealth,  *)
(* SpecLife, SpecProbe); the variables of the components a specification   *)
(* does not exercise are parked at a fixed value.                          *)
(***************************************************************************)
EXTENDS Integers, Sequences, FiniteSets, TLC

\* ------------------------------------------------------------------ bounds
MaxItems == 4
MaxConc == 3

Tasks == 1..MaxItems

VARIABLES
    \* Semaphore
    permits,        \* Semaphore.permits
    waitQueue,      \* Semaphore.waitQueue: the suspended callers, oldest first
    \* callers of the gate / items of a batch
    pc,             \* position of each caller / item callback
    maxConcurrency, \* the capacity the gate was constructed with
    \* batchRequest / batchSearch / batchGetSongs
    nItems,         \* requests.length
    mapped,         \* how many callbacks requests.map has started
    outcome,        \* what item i's operation settled with
    results,        \* the results array (a JS array: assignment by index)
    promises,       \* state of the promise of each item callback
    batch,          \* position of the batch call itself
    successCount,
    errorCount,
    order,          \* history: the items in the order their callbacks finished
    \* HttpClient.requestWithRetry
    retries,        \* config.retries
    call,           \* position of the logical call
    retryCount,     \* the retryCount argument of the current invocation
    attempts,       \* how many times this.client.request has been called
    history,        \* what each attempt settled with, in order
    returned,       \* the value the call returned
    thrown,         \* the ApiError the call threw
    requestCount,   \* HttpClient.requestCount
    httpErrorCount, \* HttpClient.errorCount
    timeAdds,       \* history: how many times `totalResponseTime +=` has run
    agentsDestroyed, \* HttpClient.destroy() has run
    retryDelay,     \* config.retryDelay
    delay,          \* the delay of the backoff sleep in progress, 0 when none
    \* MemoryCache
    maxSize,        \* config.maxSize
    cfgTtl,         \* config.ttl
    cache,          \* MemoryCache.cache: key -> CacheItem
    accessOrder,    \* MemoryCache.accessOrder, a Map in insertion order
    accessCounter,  \* MemoryCache.accessCounter
    hits,           \* stats.hits
    misses,         \* stats.misses
    now,            \* Date.now()
    lastGet,        \* history: the get(key) just made and what it returned, if the
                    \* last operation was a get
    \* AdapterManager and one of its adapters
    adapters,       \* the keys of AdapterManager.adapters
    platform,       \* BasePlatformAdapter.platform of the adapter the calls address
    enableL1,       \* config.cache.enableL1 of that adapter
    pcache,         \* the live entries of the adapter's cache: key -> result
    dcall,          \* the dispatches through the manager: position, request, locals
    upstreamCalls,  \* history: how many upstream calls the adapter has issued
    perf,           \* AdapterManager.performanceMetrics
    \* AdapterManager.searchAll
    ftargets,       \* targetPlatforms
    fpos,           \* position of the searchAll call
    fpc,            \* position of the callback of each target platform
    fresults,       \* the results Map: platform -> result or error
    \* AdapterManager.getHealthStatus / BasePlatformAdapter.healthCheck
    hpos,           \* position of the getHealthStatus call
    hpc,            \* position of each adapter's healthCheck
    healthStatus,   \* BasePlatformAdapter.healthStatus of each adapter
    hstatuses,      \* the healthStatuses Map of the current getHealthStatus call
    httpStats,      \* requestCount and errorCount of each adapter's HttpClient
    \* timers and teardown
    monitoring,     \* config.monitoring.enabled
    healthTimer,    \* healthCheckInterval is armed
    metricsTimer,   \* metricsInterval is armed
    sweepTimers,    \* the platforms whose MemoryCache cleanup interval is armed
    torn,           \* the platforms whose HttpClient.destroy() has run
    destroyed,      \* AdapterManager.destroy() has returned
    ticks           \* history: how often each periodic task has fired

semVars == <<permits, waitQueue>>
batchVars == <<nItems, mapped, outcome, results, promises, batch, successCount, errorCount,
              order>>
retryVars == <<retries, call, retryCount, attempts, history, returned, thrown, requestCount,
              httpErrorCount, timeAdds, agentsDestroyed, retryDelay, delay>>
cacheVars == <<maxSize, cfgTtl, cache, accessOrder, accessCounter, hits, misses, now, lastGet>>
dispVars == <<platform, enableL1, pcache, dcall, upstreamCalls, perf>>
fanVars == <<ftargets, fpos, fpc, fresults>>
healthVars == <<hpos, hpc, healthStatus, hstatuses, httpStats>>
lifeVars == <<monitoring, healthTimer, metricsTimer, sweepTimers, torn, destroyed, ticks>>
orchVars == <<adapters, dispVars, fanVars, healthVars, lifeVars>>
vars == <<permits, waitQueue, pc, maxConcurrency, nItems, mapped, outcome, results,
          promises, batch, successCount, errorCount, order, retryVars, cacheVars, orchVars>>

\* what the gate and batch actions leave alone
notBatch == <<retryVars, cacheVars, orchVars>>
\* what the transport actions leave alone
notRetry == <<semVars, pc, maxConcurrency, batchVars, cacheVars, orchVars>>
\* what the cache actions leave alone
notCache == <<semVars, pc, maxConcurrency, batchVars, retryVars, orchVars>>
\* what the orchestrator actions leave alone
notOrch == <<semVars, pc, maxConcurrency, batchVars, retryVars, cacheVars>>
notDispatch == <<notOrch, fanVars, healthVars, lifeVars>>
notFan == <<notOrch, dispVars, healthVars, lifeVars>>
notHealth == <<notOrch, dispVars, fanVars, lifeVars>>
notLife == <<notOrch, dispVars, fanVars, healthVars>>

Max(a, b) == IF a >= b THEN a ELSE b

\* ---------------------------------------------------------------- Semaphore
\* an acquire that never consumes the permit
PermitsAfterAcquireKeep(p) == p

\* acquire(): `if (this.permits > 0) { this.permits--; return }`, else the
\* caller's resolve is pushed on waitQueue.
PermitsAfterAcquire(p) == IF p > 0 THEN p - 1 ELSE p

QueueAfterAcquire(p, q, i) == IF p > 0 THEN q ELSE Append(q, i)

PcAfterAcquire(p) == IF p > 0 THEN "granted" ELSE "waiting"

\* release() that also returns the handed-off permit to the pool
PermitsAfterReleaseNoTake(p, q) == p + 1

\* release(): `this.permits++`, and if a caller waits: shift it, `this.permits--`
\* and resolve it.
PermitsAfterRelease(p, q) == IF Len(q) > 0 THEN (p + 1) - 1 ELSE p + 1

QueueAfterRelease(q) == IF Len(q) > 0 THEN Tail(q) ELSE q

\* a release() that resolves the caller that arrived last
WokenLast(q) == IF Len(q) > 0 THEN {q[Len(q)]} ELSE {}

\* the callers whose acquire() promise release() resolves
Woken(q) == IF Len(q) > 0 THEN {Head(q)} ELSE {}

\* new Semaphore(permits)
SemInit ==
    /\ permits = maxConcurrency
    /\ waitQueue = <<>>

\* an absent value (undefined / null)
None == "none"

\* no ApiError thrown
NoError == [code |-> None, hasStatus |-> FALSE, status |-> 0, retryable |-> FALSE]

RetryOff ==
    /\ retries = 0
    /\ call = "off"
    /\ retryCount = 0
    /\ attempts = 0
    /\ history = <<>>
    /\ returned = None
    /\ thrown = NoError
    /\ requestCount = 0
    /\ httpErrorCount = 0
    /\ timeAdds = 0
    /\ agentsDestroyed = FALSE
    /\ retryDelay = 0
    /\ delay = 0

NoGet == [key |-> None, result |-> None]

CacheOff ==
    /\ maxSize = 1
    /\ cfgTtl = 0
    /\ cache = <<>>
    /\ accessOrder = <<>>
    /\ accessCounter = 0
    /\ hits = 0
    /\ misses = 0
    /\ now = 0
    /\ lastGet = NoGet

\* ------------------------------------------------------------ a bare gate
\* Callers that acquire, hold and release the gate in any interleaving; a
\* caller releases only after its acquire() has completed.
GateAcquire(i) ==
    /\ pc[i] = "idle"
    /\ permits' = PermitsAfterAcquire(permits)
    /\ waitQueue' = QueueAfterAcquire(permits, waitQueue, i)
    /\ pc' = [pc EXCEPT ![i] = PcAfterAcquire(permits)]
    /\ UNCHANGED <<notBatch, maxConcurrency, batchVars>>

\* the continuation of `await semaphore.acquire()` runs: acquire has completed
GateResume(i) ==
    /\ pc[i] = "granted"
    /\ pc' = [pc EXCEPT ![i] = "holding"]
    /\ UNCHANGED <<notBatch, semVars, maxConcurrency, batchVars>>

GateRelease(i) ==
    /\ pc[i] = "holding"
    /\ permits' = PermitsAfterRelease(permits, waitQueue)
    /\ waitQueue' = QueueAfterRelease(waitQueue)
    /\ pc' = [j \in Tasks |->
                IF j = i THEN "idle"
                ELSE IF j \in Woken(waitQueue) THEN "granted" ELSE pc[j]]
    /\ UNCHANGED <<notBatch, maxConcurrency, batchVars>>

\* an item operation that has not settled
NoOutcome == [kind |-> None, of |-> 0]

BatchOff ==
    /\ nItems = 0
    /\ mapped = 0
    /\ outcome = [i \in Tasks |-> NoOutcome]
    /\ results = <<>>
    /\ promises = [i \in Tasks |-> "none"]
    /\ batch = "off"
    /\ successCount = 0
    /\ errorCount = 0
    /\ order = <<>>

\* ------------------------------------------------- orchestrator: constants
MaxCalls == 2

\* the dispatches a run makes through the manager
Calls == 1..MaxCalls

\* enum Platform
Platforms == {"netease", "kuwo", "qq", "kugou"}

\* a dispatch not yet made, and its locals before they are assigned
NoRequest == [op |-> None, id |-> None, limit |-> 0, offset |-> 0]

NoResult == [data |-> None, cached |-> FALSE]

NoCall == [pc |-> "idle", req |-> NoRequest, hit |-> NoResult, res |-> NoResult,
           err |-> None, fetched |-> FALSE]

\* initializeMetrics(): requestCount, averageResponseTime and errorRate are 0;
\* the two rates are kept as exact fractions <<numerator, denominator>>.
\* timeSum and timed are history: the sum and the number of the response
\* times that have been added to the average.
InitializeMetrics ==
    [requestCount |-> 0, avg |-> <<0, 1>>, err |-> <<0, 1>>, timeSum |-> 0, timed |-> 0]

DispatchOff ==
    /\ platform = None
    /\ enableL1 = FALSE
    /\ pcache = <<>>
    /\ dcall = [c \in Calls |-> NoCall]
    /\ upstreamCalls = 0
    /\ perf = InitializeMetrics

FanOff ==
    /\ ftargets = {}
    /\ fpos = "off"
    /\ fpc = [p \in Platforms |-> "idle"]
    /\ fresults = <<>>

\* the healthStatus each adapter is constructed with
InitialHealth == [status |-> "healthy", responseTime |-> 0, errorRate |-> <<0, 1>>]

HealthOff ==
    /\ hpos = "off"
    /\ hpc = [p \in Platforms |-> "idle"]
    /\ healthStatus = [p \in Platforms |-> InitialHealth]
    /\ hstatuses = <<>>
    /\ httpStats = [p \in Platforms |-> [requestCount |-> 0, errorCount |-> 0]]

NoTicks == [health |-> 0, metrics |-> 0, sweep |-> 0]

LifeOff ==
    /\ monitoring = FALSE
    /\ healthTimer = FALSE
    /\ metricsTimer = FALSE
    /\ sweepTimers = {}
    /\ torn = {}
    /\ destroyed = FALSE
    /\ ticks = NoTicks

\* the gate, batch, transport and L1 variables, parked
NotOrchOff ==
    /\ maxConcurrency = 1
    /\ SemInit
    /\ pc = [i \in Tasks |-> "idle"]
    /\ BatchOff
    /\ RetryOff
    /\ CacheOff

OrchOff ==
    /\ adapters = {}
    /\ DispatchOff
    /\ FanOff
    /\ HealthOff
    /\ LifeOff

InitGate ==
    /\ maxConcurrency \in 1..MaxConc
    /\ SemInit
    /\ pc = [i \in Tasks |-> "idle"]
    /\ BatchOff
    /\ RetryOff
    /\ CacheOff
    /\ OrchOff

NextGate == \E i \in Tasks : GateAcquire(i) \/ GateResume(i) \/ GateRelease(i)

SpecGate == InitGate /\ [][NextGate]_vars

\* -------------------------------------------------------------------- batch
\* A hole of a JS array (an index never assigned).
Hole == [kind |-> "empty", of |-> 0]

\* results.push(v): slots in completion order
ArrayPush(arr, idx, v) == Append(arr, v)

\* `results[index] = v` on a JS array; idx is index + 1.
ArraySet(arr, idx, v) ==
    [j \in 1..Max(Len(arr), idx) |->
        IF j = idx THEN v ELSE IF j <= Len(arr) THEN arr[j] ELSE Hole]

Outcomes(i) == {[kind |-> "value", of |-> i], [kind |-> "error", of |-> i]}

\* a callback without the catch clause: the error leaves the callback
CallbackPromiseNoCatch(o) == IF o.kind = "error" THEN "rejected" ELSE "fulfilled"

\* try { ... } catch (error) { results[index] = error } finally { release }:
\* the async callback returns normally whatever the operation settled with.
CallbackPromise(o) == "fulfilled"

\* release only on the success path instead of in `finally`
ReleasesOnlyOnSuccess(o) == o.kind = "value"

\* `finally { semaphore.release() }`
Releases(o) == TRUE

\* a callback that counts every item as a success and a failed one as an
\* error too
CountedAlways(n, o, kind) == IF kind = "value" \/ o.kind = kind THEN n + 1 ELSE n

\* `successCount++` at the end of the try block, `errorCount++` in the catch
\* block: the counter of the branch the callback took goes up by one
Counted(n, o, kind) == IF o.kind = kind THEN n + 1 ELSE n

\* const results = []; const semaphore = new Semaphore(maxConcurrency);
InitBatch ==
    /\ maxConcurrency \in 1..MaxConc
    /\ SemInit
    /\ nItems \in 0..MaxItems
    /\ pc = [i \in Tasks |-> "unborn"]
    /\ mapped = 0
    /\ outcome = [i \in Tasks |-> NoOutcome]
    /\ results = <<>>
    /\ promises = [i \in Tasks |-> "none"]
    /\ batch = "mapping"
    /\ successCount = 0
    /\ errorCount = 0
    /\ order = <<>>
    /\ RetryOff
    /\ CacheOff
    /\ OrchOff

\* requests.map(async (request, index) => { await semaphore.acquire(); ...
\* map runs the callbacks synchronously, in index order, each up to its
\* first await.
MapCallback(i) ==
    /\ batch = "mapping"
    /\ i = mapped + 1
    /\ i <= nItems
    /\ mapped' = i
    /\ permits' = PermitsAfterAcquire(permits)
    /\ waitQueue' = QueueAfterAcquire(permits, waitQueue, i)
    /\ pc' = [pc EXCEPT ![i] = PcAfterAcquire(permits)]
    /\ promises' = [promises EXCEPT ![i] = "pending"]
    /\ UNCHANGED <<notBatch, maxConcurrency, nItems, outcome, results, batch, successCount, errorCount,
                   order>>

\* await Promise.all(promises): the batch call suspends
AwaitAll ==
    /\ batch = "mapping"
    /\ mapped = nItems
    /\ batch' = "awaiting"
    /\ UNCHANGED <<notBatch, semVars, pc, maxConcurrency, nItems, mapped, outcome, results, promises,
                   successCount, errorCount, order>>

\* the callback resumes after `await semaphore.acquire()` and starts its
\* operation (requestWithRetry / search / getSong)
StartItem(i) ==
    /\ batch # "mapping"
    /\ pc[i] = "granted"
    /\ pc' = [pc EXCEPT ![i] = "running"]
    /\ UNCHANGED <<notBatch, semVars, maxConcurrency, batchVars>>

\* the operation of item i settles, with a value or with an error
SettleItem(i) ==
    /\ pc[i] = "running"
    /\ \E o \in Outcomes(i) : outcome' = [outcome EXCEPT ![i] = o]
    /\ pc' = [pc EXCEPT ![i] = "settled"]
    /\ UNCHANGED <<notBatch, semVars, maxConcurrency, nItems, mapped, results, promises, batch,
                   successCount, errorCount, order>>

\* the rest of the callback: the try or the catch branch, then finally
FinishItem(i) ==
    /\ pc[i] = "settled"
    /\ results' = ArraySet(results, i, outcome[i])
    /\ successCount' = Counted(successCount, outcome[i], "value")
    /\ errorCount' = Counted(errorCount, outcome[i], "error")
    /\ IF Releases(outcome[i])
         THEN /\ permits' = PermitsAfterRelease(permits, waitQueue)
              /\ waitQueue' = QueueAfterRelease(waitQueue)
              /\ pc' = [j \in Tasks |->
                         IF j = i THEN "done"
                         ELSE IF j \in Woken(waitQueue) THEN "granted" ELSE pc[j]]
         ELSE /\ UNCHANGED semVars
              /\ pc' = [pc EXCEPT ![i] = "done"]
    /\ promises' = [promises EXCEPT ![i] = CallbackPromise(outcome[i])]
    /\ order' = Append(order, i)
    /\ UNCHANGED <<notBatch, maxConcurrency, nItems, mapped, outcome, batch>>

\* Promise.all settles: rejected as soon as one callback promise is rejected,
\* fulfilled when all are fulfilled; then `return results`.
PromiseAll ==
    /\ batch = "awaiting"
    /\ \/ \E i \in 1..nItems : promises[i] = "rejected"
       \/ \A i \in 1..nItems : promises[i] = "fulfilled"
    /\ batch' = IF \E i \in 1..nItems : promises[i] = "rejected"
                  THEN "rejected" ELSE "returned"
    /\ UNCHANGED <<notBatch, semVars, pc, maxConcurrency, nItems, mapped, outcome, results, promises,
                   successCount, errorCount, order>>

NextBatch ==
    \/ \E i \in Tasks : MapCallback(i)
    \/ AwaitAll
    \/ \E i \in Tasks : StartItem(i)
    \/ \E i \in Tasks : SettleItem(i)
    \/ \E i \in Tasks : FinishItem(i)
    \/ PromiseAll

SpecBatch == InitBatch /\ [][NextBatch]_vars

\* The batch under the scheduling of the event loop: synchronous code runs to
\* its end (the map, then the await), every continuation that is ready is
\* eventually run, and every item operation that was started eventually
\* settles.
FairBatch ==
    /\ WF_vars(\E i \in Tasks : MapCallback(i))
    /\ WF_vars(AwaitAll)
    /\ \A i \in Tasks : WF_vars(StartItem(i))
    /\ \A i \in Tasks : WF_vars(SettleItem(i))
    /\ \A i \in Tasks : WF_vars(FinishItem(i))
    /\ WF_vars(PromiseAll)

SpecBatchLive == SpecBatch /\ FairBatch

\* ---------------------------------------------------------------- transport
MaxRetries == 3

\* error.code values the retry predicate names
NetCodes == {"ECONNRESET", "ETIMEDOUT", "ECONNREFUSED", "ENOTFOUND"}

\* What one attempt (this.client.request) can settle with: a response with
\* data, a failure without a response (error.code set, or not set at all), or
\* a failure carrying a response status.
AttemptOutcomes ==
    {[ok |-> TRUE, code |-> None, hasResponse |-> TRUE, status |-> 200, data |-> d] :
        d \in {"d1", "d2"}}
    \cup {[ok |-> FALSE, code |-> c, hasResponse |-> FALSE, status |-> 0, data |-> None] :
        c \in NetCodes \cup {"ECONNABORTED", None}}
    \cup {[ok |-> FALSE, code |-> "ERR_BAD_REQUEST", hasResponse |-> TRUE, status |-> st,
           data |-> None] : st \in {400, 404, 429}}
    \cup {[ok |-> FALSE, code |-> "ERR_BAD_RESPONSE", hasResponse |-> TRUE, status |-> st,
           data |-> None] : st \in {500, 503}}

\* shouldRetry with `retryCount > this.config.retries`
ShouldRetryOneMore(error, rc, maxR) ==
    IF rc > maxR THEN FALSE
    ELSE \/ error.code \in NetCodes
         \/ error.hasResponse /\ error.status >= 500
         \/ error.hasResponse /\ error.status = 429

\* shouldRetry with `retryCount + 1 >= this.config.retries`
ShouldRetryOneLess(error, rc, maxR) ==
    IF rc + 1 >= maxR THEN FALSE
    ELSE \/ error.code \in NetCodes
         \/ error.hasResponse /\ error.status >= 500
         \/ error.hasResponse /\ error.status = 429

\* shouldRetry that retries every response status >= 400
ShouldRetryAnyStatus(error, rc, maxR) ==
    IF rc >= maxR THEN FALSE
    ELSE \/ error.code \in NetCodes
         \/ error.hasResponse /\ error.status >= 400

\* shouldRetry without the 429 clause
ShouldRetryNo429(error, rc, maxR) ==
    IF rc >= maxR THEN FALSE
    ELSE \/ error.code \in NetCodes
         \/ error.hasResponse /\ error.status >= 500

\* shouldRetry(error, retryCount); `error.response?.status` of a failure
\* without a response is undefined, and undefined >= 500 is false.
ShouldRetry(error, rc, maxR) ==
    IF rc >= maxR THEN FALSE
    ELSE IF error.code \in NetCodes THEN TRUE
    ELSE IF error.hasResponse /\ error.status >= 500 THEN TRUE
    ELSE IF error.hasResponse /\ error.status = 429 THEN TRUE
    ELSE FALSE

\* createApiError with the flag judged at the attempt that failed
CreateApiErrorAtAttempt(error, maxR) ==
    [code |-> IF error.code = None THEN "UNKNOWN_ERROR" ELSE error.code,
     hasStatus |-> error.hasResponse,
     status |-> error.status,
     retryable |-> ShouldRetry(error, retryCount, maxR)]

\* createApiError(error, url): code || 'UNKNOWN_ERROR', details.status, and
\* retryable = shouldRetry(error, 0)
CreateApiError(error, maxR) ==
    [code |-> IF error.code = None THEN "UNKNOWN_ERROR" ELSE error.code,
     hasStatus |-> error.hasResponse,
     status |-> error.status,
     retryable |-> ShouldRetry(error, 0, maxR)]

Min(a, b) == IF a <= b THEN a ELSE b

\* config.retryDelay: the service's 1000 ms, and a base delay that reaches the
\* cap at the third retry
RetryDelays == {1000, 8000}

\* Math.random() * 1000, in whole milliseconds: a value in [0, 1000)
Jitters == {0, 500, 999}

\* a backoff without the upper limit
CalculateRetryDelayUncapped(rc, baseDelay, jitter) == baseDelay * 2^rc + jitter

\* calculateRetryDelay(retryCount):
\* Math.min(baseDelay * Math.pow(2, retryCount) + jitter, 30000)
CalculateRetryDelay(rc, baseDelay, jitter) == Min(baseDelay * 2^rc + jitter, 30000)

\* new HttpClient(config), no call made yet
InitRetry ==
    /\ retries \in 0..MaxRetries
    /\ call = "idle"
    /\ retryCount = 0
    /\ attempts = 0
    /\ history = <<>>
    /\ returned = None
    /\ thrown = NoError
    /\ requestCount = 0
    /\ httpErrorCount = 0
    /\ timeAdds = 0
    /\ agentsDestroyed = FALSE
    /\ retryDelay \in RetryDelays
    /\ delay = 0
    /\ maxConcurrency = 1
    /\ SemInit
    /\ pc = [i \in Tasks |-> "idle"]
    /\ BatchOff
    /\ CacheOff
    /\ OrchOff

\* get / post / put / delete: requestWithRetry(method, url, data, config)
\* with retryCount = 0, up to `await this.client.request(...)`
Call ==
    /\ call = "idle"
    /\ call' = "inflight"
    /\ retryCount' = 0
    /\ attempts' = attempts + 1
    /\ UNCHANGED <<notRetry, retries, history, returned, thrown, requestCount, httpErrorCount,
                   timeAdds, agentsDestroyed, retryDelay, delay>>

\* the attempt settles: the response interceptor runs (updateMetrics for a
\* response, `errorCount++` for an error, and in both `totalResponseTime +=`
\* since the request interceptor stamped metadata.startTime), then either
\* `return response.data` or the catch block up to `await this.sleep(delay)`
\* or `throw this.createApiError(error, url)`
Respond(o) ==
    /\ call = "inflight"
    /\ history' = Append(history, o)
    /\ requestCount' = IF o.ok THEN requestCount + 1 ELSE requestCount
    /\ httpErrorCount' = IF o.ok THEN httpErrorCount ELSE httpErrorCount + 1
    /\ timeAdds' = timeAdds + 1
    /\ IF o.ok
         THEN call' = "returned" /\ returned' = o.data /\ thrown' = thrown /\ delay' = delay
         ELSE IF ShouldRetry(o, retryCount, retries)
           THEN /\ call' = "sleeping"
                /\ \E jitter \in Jitters :
                      delay' = CalculateRetryDelay(retryCount, retryDelay, jitter)
                /\ UNCHANGED <<returned, thrown>>
           ELSE call' = "failed" /\ thrown' = CreateApiError(o, retries)
                /\ returned' = returned /\ delay' = delay
    /\ UNCHANGED <<notRetry, retries, retryCount, attempts, agentsDestroyed, retryDelay>>

\* the backoff sleep ends: `return this.requestWithRetry(..., retryCount + 1)`
\* up to its `await this.client.request(...)`
Wake ==
    /\ call = "sleeping"
    /\ call' = "inflight"
    /\ retryCount' = retryCount + 1
    /\ attempts' = attempts + 1
    /\ delay' = 0
    /\ UNCHANGED <<notRetry, retries, history, returned, thrown, requestCount, httpErrorCount,
                   timeAdds, agentsDestroyed, retryDelay>>

\* HttpClient.destroy(), while no attempt is in flight: destroy() on the two
\* agents closes their sockets. The client keeps its agents and no field
\* records the teardown; requestWithRetry reads none.
DestroyClient ==
    /\ ~agentsDestroyed
    /\ call # "inflight"
    /\ agentsDestroyed' = TRUE
    /\ UNCHANGED <<notRetry, retries, call, retryCount, attempts, history, returned, thrown,
                   requestCount, httpErrorCount, timeAdds, retryDelay, delay>>

NextRetry ==
    \/ Call
    \/ \E o \in AttemptOutcomes : Respond(o)
    \/ Wake
    \/ DestroyClient

SpecRetry == InitRetry /\ [][NextRetry]_vars

\* -------------------------------------------------------------- MemoryCache
MaxCap == 2
MaxTime == 2
MaxAccess == 3
MaxGets == 2

\* cache keys: any string, the empty string among them
Keys == {"", "a", "b"}
Values == {"v1"}
\* the ttl argument of set: <<>> when omitted, else <<milliseconds>>
TtlArgs == {<<>>, <<0>>, <<2>>}

\* Map.set(key, value) on a Map kept in insertion order: an existing key
\* keeps its place
MapSet(m, k, x) ==
    IF \E i \in 1..Len(m) : m[i].key = k
      THEN [i \in 1..Len(m) |-> IF m[i].key = k THEN [key |-> k, order |-> x] ELSE m[i]]
      ELSE Append(m, [key |-> k, order |-> x])

NotKey(e, k) == e.key # k

\* a delete that leaves the access-order index as it is
MapDeleteKeep(m, k) == m

\* Map.delete(key)
MapDelete(m, k) == SelectSeq(m, LAMBDA e : NotKey(e, k))

MapKeys(m) == {m[i].key : i \in 1..Len(m)}

\* cache.delete(key) / cache.set(key, item)
Without(c, k) == [j \in (DOMAIN c) \ {k} |-> c[j]]

With(c, k, item) == [j \in (DOMAIN c) \cup {k} |-> IF j = k THEN item ELSE c[j]]

\* the loop of evictLeastUsed: lruKey = null, lruOrder = Infinity; for each
\* [key, order] of accessOrder: if (order < lruOrder) take it. The result is
\* <<>> for null and <<key>> otherwise.
RECURSIVE LruScan(_, _, _)
LruScan(m, i, best) ==
    IF i > Len(m) THEN (IF best = <<>> THEN <<>> ELSE <<best[1].key>>)
    ELSE IF best = <<>> \/ m[i].order < best[1].order
      THEN LruScan(m, i + 1, <<m[i]>>)
      ELSE LruScan(m, i + 1, best)

\* `if (lruKey)` as a null test: true for every string
TruthyNotNull(lru) == lru # <<>>

\* `if (lruKey)`: false for null and for the empty string
Truthy(lru) == lru # <<>> /\ lru[1] # ""

\* the keys evictLeastUsed deletes
Evicted(m) ==
    LET lruKey == LruScan(m, 1, <<>>)
    IN IF Truthy(lruKey) THEN {lruKey[1]} ELSE {}

\* isExpired with `>=`
IsExpiredAtTtl(item, t) == t - item.createdAt >= item.ttl

\* isExpired(item): Date.now() - item.createdAt > item.ttl
IsExpired(item, t) == t - item.createdAt > item.ttl

\* `ttl || this.config.ttl`: undefined and 0 both select the default
ItemTtl(ttl, dflt) == IF ttl = <<>> \/ ttl[1] = 0 THEN dflt ELSE ttl[1]

\* set() that evicts only when the key is new
NeedsEvictionNewKeyOnly(c, k, cap) == k \notin DOMAIN c /\ Cardinality(DOMAIN c) >= cap

\* `if (this.cache.size >= this.config.maxSize)`
NeedsEviction(c, k, cap) == Cardinality(DOMAIN c) >= cap

\* a hit rate computed as hits per miss
HitRateOverMisses(h, m) == IF h + m > 0 THEN <<h, m + 1>> ELSE <<0, 1>>

\* getStats().hitRate as an exact fraction: `total > 0 ? hits / total : 0`
HitRate(h, m) == IF h + m > 0 THEN <<h, h + m>> ELSE <<0, 1>>

\* new MemoryCache(config)
InitCache ==
    /\ maxSize \in 1..MaxCap
    /\ cfgTtl = 1
    /\ cache = <<>>
    /\ accessOrder = <<>>
    /\ accessCounter = 0
    /\ hits = 0
    /\ misses = 0
    /\ now = 0
    /\ lastGet = NoGet
    /\ maxConcurrency = 1
    /\ SemInit
    /\ pc = [i \in Tasks |-> "idle"]
    /\ BatchOff
    /\ RetryOff
    /\ OrchOff

\* get(key)
Get(k) ==
    /\ hits + misses < MaxGets
    /\ IF k \notin DOMAIN cache
         THEN /\ misses' = misses + 1
              /\ lastGet' = [key |-> k, result |-> None]
              /\ UNCHANGED <<cache, accessOrder, accessCounter, hits>>
         ELSE IF IsExpired(cache[k], now)
           THEN /\ accessOrder' = MapDelete(accessOrder, k)
                /\ cache' = Without(cache, k)
                /\ misses' = misses + 1
                /\ lastGet' = [key |-> k, result |-> None]
                /\ UNCHANGED <<accessCounter, hits>>
           ELSE /\ accessCounter < MaxAccess
                /\ cache' = cache
                /\ accessCounter' = accessCounter + 1
                /\ accessOrder' = MapSet(accessOrder, k, accessCounter + 1)
                /\ hits' = hits + 1
                /\ lastGet' = [key |-> k, result |-> cache[k].value]
                /\ misses' = misses
    /\ UNCHANGED <<notCache, maxSize, cfgTtl, now>>

\* set(key, value, ttl). The item fields accessCount and lastAccessed are
\* written by get and set and read by nothing; the item here is the fields the
\* cache reads: key, value, ttl, createdAt.
Set(k, v, ttl) ==
    /\ accessCounter < MaxAccess
    /\ LET gone == IF NeedsEviction(cache, k, maxSize) THEN Evicted(accessOrder) ELSE {}
           kept == [j \in (DOMAIN cache) \ gone |-> cache[j]]
           order1 == SelectSeq(accessOrder, LAMBDA e : e.key \notin gone)
           item == [key |-> k, value |-> v, ttl |-> ItemTtl(ttl, cfgTtl), createdAt |-> now]
       IN /\ cache' = With(kept, k, item)
          /\ accessOrder' = MapSet(order1, k, accessCounter + 1)
    /\ accessCounter' = accessCounter + 1
    /\ lastGet' = NoGet
    /\ UNCHANGED <<notCache, maxSize, cfgTtl, hits, misses, now>>

\* delete(key)
Delete(k) ==
    /\ accessOrder' = MapDelete(accessOrder, k)
    /\ cache' = Without(cache, k)
    /\ lastGet' = NoGet
    /\ UNCHANGED <<notCache, maxSize, cfgTtl, accessCounter, hits, misses, now>>

\* clear()
Clear ==
    /\ cache' = <<>>
    /\ accessOrder' = <<>>
    /\ accessCounter' = 0
    /\ lastGet' = NoGet
    /\ UNCHANGED <<notCache, maxSize, cfgTtl, hits, misses, now>>

\* the timer of startCleanupTimer fires: cleanupExpired()
CleanupExpired ==
    /\ LET expiredKeys == {k \in DOMAIN cache : now - cache[k].createdAt > cache[k].ttl}
       IN /\ cache' = [j \in (DOMAIN cache) \ expiredKeys |-> cache[j]]
          /\ accessOrder' = SelectSeq(accessOrder, LAMBDA e : e.key \notin expiredKeys)
    /\ lastGet' = NoGet
    /\ UNCHANGED <<notCache, maxSize, cfgTtl, accessCounter, hits, misses, now>>

\* a millisecond passes
Tick ==
    /\ now < MaxTime
    /\ now' = now + 1
    /\ lastGet' = NoGet
    /\ UNCHANGED <<notCache, maxSize, cfgTtl, cache, accessOrder, accessCounter, hits, misses>>

NextCache ==
    \/ \E k \in Keys : Get(k)
    \/ \E k \in Keys, v \in Values, ttl \in TtlArgs : Set(k, v, ttl)
    \/ \E k \in Keys : Delete(k)
    \/ Clear
    \/ CleanupExpired
    \/ Tick

SpecCache == InitCache /\ [][NextCache]_vars

\* new MemoryCache({maxSize: MaxCap, ttl: 1}): the cache built at the largest
\* capacity, where two entries of different age are resident together
InitCacheAtCap ==
    /\ InitCache
    /\ maxSize = MaxCap

SpecCacheAtCap == InitCacheAtCap /\ [][NextCache]_vars

\* ------------------------------------------- AdapterManager: single dispatch
\* the calls made through the manager: search with offset 0 or 1, getSong,
\* batchSearch, batchGetSongs and warmupCache (limit and quality omitted)
DispatchOps == {"search", "getSong"}
DelegatedOps == {"batchSearch", "batchGetSongs", "warmupCache"}
Requests ==
    {[op |-> "search", id |-> "k", limit |-> 0, offset |-> o] : o \in {0, 1}}
    \cup {[op |-> o, id |-> "s", limit |-> 0, offset |-> 0] :
            o \in {"getSong"} \cup DelegatedOps}

\* String(n) for the numbers that occur in cache keys
NumStr(n) == CASE n = 0 -> "0" [] n = 1 -> "1" [] n = 10 -> "10" [] n = 20 -> "20"

\* `query.limit || 10` (kuwo: `|| 20`)
LimitOf(p, r) == IF r.limit # 0 THEN r.limit ELSE IF p = "kuwo" THEN 20 ELSE 10

\* a search key that contains the offset for every provider
CacheKeyWithOffset(p, r) ==
    IF r.op = "search"
      THEN <<p, "search", r.id, NumStr(LimitOf(p, r)), NumStr(r.offset)>>
      ELSE IF r.op = "getLyric"
        THEN <<p, "lyric", r.id>>
        ELSE <<p, "song", r.id, "standard">>

\* the cache key each adapter builds with generateCacheKey(type, identifier,
\* ...params): [platform, type, identifier, ...params].join(':'), kept here as
\* the sequence of its parts
CacheKey(p, r) ==
    IF r.op = "search"
      THEN IF p \in {"qq", "kugou"}
             THEN <<p, "search", r.id, NumStr(LimitOf(p, r)), NumStr(r.offset)>>
             ELSE <<p, "search", r.id, NumStr(LimitOf(p, r))>>
      ELSE IF r.op = "getLyric"
        THEN <<p, "lyric", r.id>>
        ELSE <<p, "song", r.id, "standard">>

\* getAdapter(platform) that finds an adapter for every platform
AvailableAlways(a, p) == TRUE

\* `const adapter = this.getAdapter(platform); if (!adapter) throw ...`
Available(a, p) == p \in a

\* a cache read that never finds an entry
GetFromCacheMiss(c, k, l1) == NoResult

\* getFromCache(key) -> cacheManager.get(key): the L1 entry when L1 is enabled
\* and holds a live entry; the L2 branch needs `this.l2Cache`, which is never
\* assigned
GetFromCache(c, k, l1) == IF l1 /\ k \in DOMAIN c THEN c[k] ELSE NoResult

\* a setToCache that keeps the entry a key already has
SetToCacheIfAbsent(c, k, v, l1) ==
    IF l1 /\ k \notin DOMAIN c
      THEN [j \in (DOMAIN c) \cup {k} |-> IF j = k THEN v ELSE c[j]] ELSE c

\* a setToCache that stores nothing
SetToCacheDropped(c, k, v, l1) == c

\* setToCache(key, value) -> cacheManager.set(key, value): l1Cache.set when L1
\* is enabled
SetToCache(c, k, v, l1) ==
    IF l1 THEN [j \in (DOMAIN c) \cup {k} |-> IF j = k THEN v ELSE c[j]] ELSE c

\* a catch block that caches the value it falls back to
CacheAfterFailureStored(c, k, l1) == SetToCache(c, k, NoResult, l1)

\* the catch blocks of search, getSong and getLyric: no setToCache
CacheAfterFailure(c, k, l1) == c

\* the LyricData the catch block of getLyric returns: no text, no timeline
DefaultLyric == [data |-> "", cached |-> FALSE]

\* what search / getSong return on a cache hit: netease and kuwo return
\* `{ ...cached, cached: true }`, qq and kugou return `cached`
ServedFromCache(p, cached) ==
    IF p \in {"netease", "kuwo"} THEN [cached EXCEPT !.cached = TRUE] ELSE cached

\* updateMetrics(operation, responseTime, success)
UpdateMetrics(m, rt, success) ==
    LET rc == m.requestCount + 1
    IN IF success
         THEN [m EXCEPT !.requestCount = rc,
                        !.avg = <<m.avg[1] * (rc - 1) + rt * m.avg[2], m.avg[2] * rc>>,
                        !.timeSum = @ + rt,
                        !.timed = @ + 1]
         ELSE [m EXCEPT !.requestCount = rc,
                        !.err = <<((rc * m.err[1]) \div m.err[2]) + 1, rc>>]

\* Date.now() - startTime of a dispatch
DispatchTimes == {1, 3}

\* what the upstream answers to one adapter operation: data, or a failure
UpstreamOutcomes == {[ok |-> TRUE, data |-> d] : d \in {"d1", "d2"}}
                    \cup {[ok |-> FALSE, data |-> None]}

\* new AdapterManager(config) and the platform the calls address:
\* config.platforms names every provider, or every provider but that one; the
\* service's configuration has `enableL1: true` for every provider
InitDispatch ==
    /\ platform \in Platforms
    /\ adapters \in {Platforms, Platforms \ {platform}}
    /\ enableL1 = TRUE
    /\ pcache = <<>>
    /\ dcall = [c \in Calls |-> NoCall]
    /\ upstreamCalls = 0
    /\ perf = InitializeMetrics
    /\ FanOff
    /\ HealthOff
    /\ LifeOff
    /\ NotOrchOff

\* AdapterManager.search / getSong / batchSearch / batchGetSongs / warmupCache
\* up to the first await: the adapter lookup, then either the throw, the
\* delegation to the adapter's batch or warmup, or the adapter's search /
\* getSong up to `await this.getFromCache(cacheKey)` (the L1 read is
\* synchronous). Calls are numbered in the order they are made.
DStart(c, r) ==
    /\ dcall[c].pc = "idle"
    /\ IF c = 1 THEN TRUE ELSE dcall[c - 1].pc # "idle"
    /\ dcall' = [dcall EXCEPT ![c] =
          IF ~Available(adapters, platform)
            THEN [@ EXCEPT !.pc = "failed", !.req = r, !.err = "not available"]
          ELSE IF r.op \in DelegatedOps
            THEN [@ EXCEPT !.pc = "delegated", !.req = r]
          ELSE [@ EXCEPT !.pc = "lookup", !.req = r,
                         !.hit = GetFromCache(pcache, CacheKey(platform, r), enableL1)]]
    /\ UNCHANGED <<notDispatch, adapters, platform, enableL1, pcache, upstreamCalls, perf>>

\* the adapter resumes after the cache read: `if (cached) return ...`, and the
\* manager records the success; otherwise the adapter issues its upstream
\* request
DResume(c, rt) ==
    /\ dcall[c].pc = "lookup"
    /\ IF dcall[c].hit # NoResult
         THEN /\ dcall' = [dcall EXCEPT ![c] =
                    [@ EXCEPT !.pc = "returned",
                              !.res = IF dcall[c].req.op = "getLyric"
                                        THEN dcall[c].hit
                                        ELSE ServedFromCache(platform, dcall[c].hit)]]
              /\ perf' = UpdateMetrics(perf, rt, TRUE)
              /\ UNCHANGED upstreamCalls
         ELSE /\ dcall' = [dcall EXCEPT ![c] = [@ EXCEPT !.pc = "upstream", !.fetched = TRUE]]
              /\ upstreamCalls' = upstreamCalls + 1
              /\ UNCHANGED perf
    /\ UNCHANGED <<notDispatch, adapters, platform, enableL1, pcache>>

\* the upstream request settles. Success: the adapter builds the result and
\* runs setToCache up to its await. Failure: `throw this.handleApiError(...)`,
\* and the manager's catch records the failure and rethrows; getLyric logs
\* the error and returns the default LyricData, which the manager records as
\* a success.
DSettle(c, o, rt) ==
    /\ dcall[c].pc = "upstream"
    /\ IF o.ok
         THEN LET result == [data |-> o.data, cached |-> FALSE]
              IN /\ pcache' = SetToCache(pcache, CacheKey(platform, dcall[c].req), result,
                                         enableL1)
                 /\ dcall' = [dcall EXCEPT ![c] = [@ EXCEPT !.pc = "wrote", !.res = result]]
                 /\ UNCHANGED perf
         ELSE /\ pcache' = CacheAfterFailure(pcache, CacheKey(platform, dcall[c].req),
                                              enableL1)
              /\ IF dcall[c].req.op = "getLyric"
                   THEN /\ dcall' = [dcall EXCEPT ![c] =
                              [@ EXCEPT !.pc = "returned", !.res = DefaultLyric]]
                        /\ perf' = UpdateMetrics(perf, rt, TRUE)
                   ELSE /\ dcall' = [dcall EXCEPT ![c] =
                              [@ EXCEPT !.pc = "failed", !.err = "api"]]
                        /\ perf' = UpdateMetrics(perf, rt, FALSE)
    /\ UNCHANGED <<notDispatch, adapters, platform, enableL1, upstreamCalls>>

\* `return result` of the adapter, and the manager records the success
DReturn(c, rt) ==
    /\ dcall[c].pc = "wrote"
    /\ dcall' = [dcall EXCEPT ![c] = [@ EXCEPT !.pc = "returned"]]
    /\ perf' = UpdateMetrics(perf, rt, TRUE)
    /\ UNCHANGED <<notDispatch, adapters, platform, enableL1, pcache, upstreamCalls>>

\* the entry of key k stops being live: its TTL runs out, or the set of
\* another key evicts it
Lapse(k) ==
    /\ k \in DOMAIN pcache
    /\ pcache' = [j \in (DOMAIN pcache) \ {k} |-> pcache[j]]
    /\ UNCHANGED <<notDispatch, adapters, platform, enableL1, dcall, upstreamCalls, perf>>

NextDispatch ==
    \/ \E c \in Calls, r \in Requests : DStart(c, r)
    \/ \E c \in Calls, rt \in DispatchTimes : DResume(c, rt)
    \/ \E c \in Calls, o \in UpstreamOutcomes, rt \in DispatchTimes : DSettle(c, o, rt)
    \/ \E c \in Calls, rt \in DispatchTimes : DReturn(c, rt)
    \/ \E r \in Requests : Lapse(CacheKey(platform, r))

SpecDispatch == InitDispatch /\ [][NextDispatch]_vars

\* ------------------------------------- AdapterManager: dispatches that fail
\* AdapterManager.getLyric(platform, songId)
LyricRequest == [op |-> "getLyric", id |-> "s", limit |-> 0, offset |-> 0]

\* one search, one getSong and one getLyric, each made up to MaxCalls times
FallbackRequests ==
    {r \in Requests : r.op \in DispatchOps /\ r.offset = 0} \cup {LyricRequest}

NextFallback ==
    \/ \E c \in Calls, r \in FallbackRequests : DStart(c, r)
    \/ \E c \in Calls, rt \in DispatchTimes : DResume(c, rt)
    \/ \E c \in Calls, o \in UpstreamOutcomes, rt \in DispatchTimes : DSettle(c, o, rt)
    \/ \E c \in Calls, rt \in DispatchTimes : DReturn(c, rt)
    \/ \E r \in FallbackRequests : Lapse(CacheKey(platform, r))

SpecFallback == InitDispatch /\ [][NextFallback]_vars

\* ------------------------------------------------- AdapterManager.searchAll
\* what adapter.search(query) settles with: a result, or an ApiError
SearchOutcomes == {[ok |-> TRUE, data |-> "d1"], [ok |-> FALSE, data |-> None]}

\* `platforms || this.getAvailablePlatforms()`; the argument is <<>> when
\* omitted and <<set>> when given (an empty array is truthy)
TargetPlatforms(arg, a) == IF arg = <<>> THEN a ELSE arg[1]

\* a callback whose catch block records nothing
SettledEntriesNoCatch(res, p, o) ==
    IF o.ok
      THEN [q \in (DOMAIN res) \cup {p} |->
              IF q = p THEN [kind |-> "result", of |-> p, data |-> o.data] ELSE res[q]]
      ELSE res

\* `results.set(platform, result)` after the await, or
\* `results.set(platform, error as Error)` in the catch block
SettledEntries(res, p, o) ==
    [q \in (DOMAIN res) \cup {p} |->
        IF q = p
          THEN IF o.ok THEN [kind |-> "result", of |-> p, data |-> o.data]
                       ELSE [kind |-> "error", of |-> p, data |-> None]
          ELSE res[q]]

\* new AdapterManager(config): any set of providers is registered
InitFan ==
    /\ adapters \in SUBSET Platforms
    /\ ftargets = {}
    /\ fpos = "idle"
    /\ fpc = [p \in Platforms |-> "idle"]
    /\ fresults = <<>>
    /\ DispatchOff
    /\ HealthOff
    /\ LifeOff
    /\ NotOrchOff

\* searchAll(query, platforms) up to `await Promise.allSettled(promises)`:
\* targetPlatforms.map runs every callback up to its first await; a callback
\* whose platform has no adapter finishes at once with no entry
FStart(arg) ==
    /\ fpos = "idle"
    /\ ftargets' = TargetPlatforms(arg, adapters)
    /\ fpc' = [p \in Platforms |->
                 IF p \notin TargetPlatforms(arg, adapters) THEN "idle"
                 ELSE IF Available(adapters, p) THEN "searching" ELSE "skipped"]
    /\ fpos' = "waiting"
    /\ UNCHANGED <<notFan, adapters, fresults>>

\* adapter.search of platform p settles and its callback finishes
FSettle(p, o) ==
    /\ fpc[p] = "searching"
    /\ fpc' = [fpc EXCEPT ![p] = IF o.ok THEN "fulfilled" ELSE "caught"]
    /\ fresults' = SettledEntries(fresults, p, o)
    /\ UNCHANGED <<notFan, adapters, ftargets, fpos>>

\* every callback has settled: Promise.allSettled resolves, `return results`
FReturn ==
    /\ fpos = "waiting"
    /\ \A p \in Platforms : fpc[p] # "searching"
    /\ fpos' = "returned"
    /\ UNCHANGED <<notFan, adapters, ftargets, fpc, fresults>>

NextFan ==
    \/ \E T \in SUBSET Platforms : FStart(<<T>>)
    \/ FStart(<<>>)
    \/ \E p \in Platforms, o \in SearchOutcomes : FSettle(p, o)
    \/ FReturn

SpecFan == InitFan /\ [][NextFan]_vars

\* --------------------------------------------- health probing of providers
\* HttpClient.getMetrics().errorRate, as an exact fraction
ErrorRateOf(st) ==
    IF st.requestCount > 0 THEN <<st.errorCount, st.requestCount>> ELSE <<0, 1>>

\* the classification with `<=` for both thresholds
ClassifyInclusive(rt, rate) ==
    IF rt <= 5000 /\ 10 * rate[1] <= rate[2] THEN "healthy" ELSE "degraded"

\* `responseTime < 5000 && metrics.errorRate < 0.1 ? 'healthy' : 'degraded'`
Classify(rt, rate) ==
    IF rt < 5000 /\ 10 * rate[1] < rate[2] THEN "healthy" ELSE "degraded"

\* the healthStatus assigned after the probe search returned
HealthOnSuccess(rt, st) ==
    [status |-> Classify(rt, ErrorRateOf(st)), responseTime |-> rt,
     errorRate |-> ErrorRateOf(st)]

\* a catch block that keeps the previous healthStatus
HealthOnFailureStale(prev, rt) == prev

\* a catch block that reports a provider healthy again when it was unhealthy
HealthOnFailureFlip(prev, rt) ==
    [status |-> IF prev.status = "unhealthy" THEN "healthy" ELSE "unhealthy",
     responseTime |-> rt, errorRate |-> <<1, 1>>]

\* the healthStatus assigned in the catch block
HealthOnFailure(prev, rt) ==
    [status |-> "unhealthy", responseTime |-> rt, errorRate |-> <<1, 1>>]

\* what the probe search does to the adapter's transport and settles with:
\* served from the cache; fetched, with or without a failed attempt before the
\* successful one; failed in the transport; or fetched and rejected as an
\* invalid response
ProbeOutcomes ==
    {[ok |-> TRUE, requests |-> 0, errors |-> 0],
     [ok |-> TRUE, requests |-> 1, errors |-> 0],
     [ok |-> TRUE, requests |-> 1, errors |-> 1],
     [ok |-> FALSE, requests |-> 0, errors |-> 1],
     [ok |-> FALSE, requests |-> 1, errors |-> 0]}

\* Date.now() - startTime of a probe
ProbeTimes == {4999, 5000}

\* the counters of every transport when getHealthStatus is called: unused, or
\* ten requests served and one failed attempt
HttpSamples == {[requestCount |-> 0, errorCount |-> 0],
                [requestCount |-> 10, errorCount |-> 1]}

InitHealth ==
    /\ adapters \in SUBSET Platforms
    /\ hpos = "idle"
    /\ hpc = [p \in Platforms |-> "idle"]
    /\ healthStatus = [p \in Platforms |-> InitialHealth]
    /\ hstatuses = <<>>
    /\ \E st \in HttpSamples : httpStats = [p \in Platforms |-> st]
    /\ DispatchOff
    /\ FanOff
    /\ LifeOff
    /\ NotOrchOff

\* getHealthStatus() up to `await Promise.allSettled(promises)`: every
\* adapter's healthCheck runs up to `await this.search(...)`
HStart ==
    /\ hpos = "idle"
    /\ hstatuses' = <<>>
    /\ hpc' = [p \in Platforms |-> IF p \in adapters THEN "probing" ELSE "idle"]
    /\ hpos' = "waiting"
    /\ UNCHANGED <<notHealth, adapters, healthStatus, httpStats>>

\* the probe search of adapter p settles: healthCheck assigns healthStatus
\* and returns it, and the callback stores it in the map
HSettle(p, o, rt) ==
    /\ hpc[p] = "probing"
    /\ LET st == [requestCount |-> httpStats[p].requestCount + o.requests,
                  errorCount |-> httpStats[p].errorCount + o.errors]
           h == IF o.ok THEN HealthOnSuccess(rt, st) ELSE HealthOnFailure(healthStatus[p], rt)
       IN /\ httpStats' = [httpStats EXCEPT ![p] = st]
          /\ healthStatus' = [healthStatus EXCEPT ![p] = h]
          /\ hstatuses' = [q \in (DOMAIN hstatuses) \cup {p} |->
                             IF q = p THEN h ELSE hstatuses[q]]
    /\ hpc' = [hpc EXCEPT ![p] = IF o.ok THEN "ok" ELSE "failed"]
    /\ UNCHANGED <<notHealth, adapters, hpos>>

\* every callback has settled: `return healthStatuses`
HReturn ==
    /\ hpos = "waiting"
    /\ \A p \in Platforms : hpc[p] # "probing"
    /\ hpos' = "returned"
    /\ UNCHANGED <<notHealth, adapters, hpc, healthStatus, hstatuses, httpStats>>

NextHealth ==
    \/ HStart
    \/ \E p \in Platforms, o \in ProbeOutcomes, rt \in ProbeTimes : HSettle(p, o, rt)
    \/ HReturn

SpecHealth == InitHealth /\ [][NextHealth]_vars

\* ------------------------------------------- construction and destruction
MaxTicks == 2

\* the state after `new AdapterManager(config)`: every configured platform has
\* an adapter, each adapter's CacheManager has built a MemoryCache whose
\* constructor armed a cleanup interval, and the two monitoring intervals are
\* armed iff monitoring is enabled
InitLife ==
    /\ adapters \in SUBSET Platforms
    /\ monitoring \in BOOLEAN
    /\ healthTimer = monitoring
    /\ metricsTimer = monitoring
    /\ sweepTimers = adapters
    /\ torn = {}
    /\ destroyed = FALSE
    /\ ticks = NoTicks
    /\ DispatchOff
    /\ FanOff
    /\ HealthOff
    /\ NotOrchOff

\* the health-check interval fires (every 30 s); the probing round its
\* callback runs is getHealthStatus, specified in SpecHealth
HealthTick ==
    /\ healthTimer
    /\ ticks.health < MaxTicks
    /\ ticks' = [ticks EXCEPT !.health = @ + 1]
    /\ UNCHANGED <<notLife, adapters, monitoring, healthTimer, metricsTimer,
                   sweepTimers, torn, destroyed>>

\* the metrics interval fires: collectMetrics samples memory and CPU
MetricsTick ==
    /\ metricsTimer
    /\ ticks.metrics < MaxTicks
    /\ ticks' = [ticks EXCEPT !.metrics = @ + 1]
    /\ UNCHANGED <<notLife, adapters, monitoring, healthTimer, metricsTimer,
                   sweepTimers, torn, destroyed>>

\* the cleanup interval of platform p's MemoryCache fires (every 60 s):
\* cleanupExpired() runs on that cache
SweepTick(p) ==
    /\ p \in sweepTimers
    /\ ticks.sweep < MaxTicks
    /\ ticks' = [ticks EXCEPT !.sweep = @ + 1]
    /\ UNCHANGED <<notLife, adapters, monitoring, healthTimer, metricsTimer,
                   sweepTimers, torn, destroyed>>

\* AdapterManager.destroy(), called once: clearInterval on the two handles
\* the manager holds, destroy() on every adapter (which destroys its
\* HttpClient and nothing else), adapters.clear(). The handle of a
\* MemoryCache's cleanup interval is kept by nobody: those stay armed.
Destroy ==
    /\ ~destroyed
    /\ healthTimer' = FALSE
    /\ metricsTimer' = FALSE
    /\ torn' = torn \cup adapters
    /\ adapters' = {}
    /\ destroyed' = TRUE
    /\ UNCHANGED <<notLife, monitoring, sweepTimers, ticks>>

NextLife ==
    \/ HealthTick
    \/ MetricsTick
    \/ \E p \in Platforms : SweepTick(p)
    \/ Destroy

SpecLife == InitLife /\ [][NextLife]_vars

\* ------------------------------- periodic probes of one provider in service
\* the query of healthCheck: search({keyword: 'test', limit: 1, platform})
ProbeRequest == [op |-> "search", id |-> "test", limit |-> 1, offset |-> 0]

\* what the probe search does to the transport when it goes upstream: it
\* succeeds, with or without a failed attempt before; it fails in the
\* transport; or its response is rejected as invalid
ProbeFetches == {o \in ProbeOutcomes : o.requests + o.errors > 0}

\* a probe is under way for provider p
Probing(p) == hpc[p] \in {"hit", "miss", "upstream", "wrote"}

\* the state after `new AdapterManager(config)` with monitoring enabled and
\* every platform configured; the dispatches and the probes followed are
\* those of one platform
InitProbe ==
    /\ platform \in Platforms
    /\ adapters = Platforms
    /\ enableL1 = TRUE
    /\ pcache = <<>>
    /\ dcall = [c \in Calls |-> NoCall]
    /\ upstreamCalls = 0
    /\ perf = InitializeMetrics
    /\ hpos = "off"
    /\ hpc = [p \in Platforms |-> "idle"]
    /\ healthStatus = [p \in Platforms |-> InitialHealth]
    /\ hstatuses = <<>>
    /\ \E st \in HttpSamples : httpStats = [p \in Platforms |-> st]
    /\ monitoring = TRUE
    /\ healthTimer = TRUE
    /\ metricsTimer = TRUE
    /\ sweepTimers = adapters
    /\ torn = {}
    /\ destroyed = FALSE
    /\ ticks = NoTicks
    /\ FanOff
    /\ NotOrchOff

\* the health-check interval fires and the adapter's healthCheck() runs up to
\* the first await of its search: the cache key is built and the L1 read made
PStart ==
    /\ healthTimer
    /\ ticks.health < MaxTicks
    /\ ~Probing(platform)
    /\ ticks' = [ticks EXCEPT !.health = @ + 1]
    /\ hpc' = [hpc EXCEPT ![platform] =
          IF GetFromCache(pcache, CacheKey(platform, ProbeRequest), enableL1) # NoResult
            THEN "hit" ELSE "miss"]
    /\ UNCHANGED <<notOrch, fanVars, dispVars, adapters, hpos, healthStatus, hstatuses,
                   httpStats, monitoring, healthTimer, metricsTimer, sweepTimers, torn,
                   destroyed>>

\* the search resumes after the cache read. On a hit it returns the cached
\* result and healthCheck classifies the provider; on a miss the adapter
\* issues its upstream request.
PResume(rt) ==
    /\ hpc[platform] \in {"hit", "miss"}
    /\ IF hpc[platform] = "hit"
         THEN /\ healthStatus' = [healthStatus EXCEPT ![platform] =
                                     HealthOnSuccess(rt, httpStats[platform])]
              /\ hpc' = [hpc EXCEPT ![platform] = "ok"]
              /\ UNCHANGED upstreamCalls
         ELSE /\ hpc' = [hpc EXCEPT ![platform] = "upstream"]
              /\ upstreamCalls' = upstreamCalls + 1
              /\ UNCHANGED healthStatus
    /\ UNCHANGED <<notOrch, fanVars, lifeVars, adapters, platform, enableL1, pcache, dcall,
                   perf, hpos, hstatuses, httpStats>>

\* the upstream request of the probe settles: the interceptors count it; on
\* success the adapter writes the result to the cache, on failure the search
\* throws and the catch block of healthCheck assigns the unhealthy status
PSettle(o, rt) ==
    /\ hpc[platform] = "upstream"
    /\ httpStats' = [httpStats EXCEPT ![platform] =
          [requestCount |-> @.requestCount + o.requests,
           errorCount |-> @.errorCount + o.errors]]
    /\ IF o.ok
         THEN /\ pcache' = SetToCache(pcache, CacheKey(platform, ProbeRequest),
                                      [data |-> "d1", cached |-> FALSE], enableL1)
              /\ hpc' = [hpc EXCEPT ![platform] = "wrote"]
              /\ UNCHANGED healthStatus
         ELSE /\ healthStatus' = [healthStatus EXCEPT ![platform] =
                                     HealthOnFailure(healthStatus[platform], rt)]
              /\ hpc' = [hpc EXCEPT ![platform] = "failed"]
              /\ UNCHANGED pcache
    /\ UNCHANGED <<notOrch, fanVars, lifeVars, adapters, platform, enableL1, dcall,
                   upstreamCalls, perf, hpos, hstatuses>>

\* the search returns its result and healthCheck classifies the provider
PFinish(rt) ==
    /\ hpc[platform] = "wrote"
    /\ healthStatus' = [healthStatus EXCEPT ![platform] =
                           HealthOnSuccess(rt, httpStats[platform])]
    /\ hpc' = [hpc EXCEPT ![platform] = "ok"]
    /\ UNCHANGED <<notOrch, fanVars, lifeVars, dispVars, adapters, hpos, hstatuses,
                   httpStats>>

\* one dispatch through the manager next to the probes, and the lapse of
\* cache entries
NextProbe ==
    \/ PStart
    \/ \E rt \in ProbeTimes : PResume(rt)
    \/ \E o \in ProbeFetches, rt \in ProbeTimes : PSettle(o, rt)
    \/ \E rt \in ProbeTimes : PFinish(rt)
    \/ \E r \in Requests \cup {ProbeRequest} : DStart(1, r)
    \/ \E rt \in DispatchTimes : DResume(1, rt)
    \/ \E o \in UpstreamOutcomes, rt \in DispatchTimes : DSettle(1, o, rt)
    \/ \E rt \in DispatchTimes : DReturn(1, rt)
    \/ \E r \in Requests \cup {ProbeRequest} : Lapse(CacheKey(platform, r))

SpecProbe == InitProbe /\ [][NextProbe]_vars

\* ------------------------------------------------------------ claims C1..C4
Holding == {i \in Tasks : pc[i] \in {"granted", "holding"}}

\* C1: for a gate of capacity N >= 1, in every interleaving of acquire and
\* release in which only a caller whose acquire completed releases, the number
\* of callers that hold a permit (acquire granted or completed, not yet
\* released) never exceeds N, and the free-permit count never goes negative.
C1_GateCapacity ==
    /\ permits >= 0
    /\ Cardinality(Holding) <= maxConcurrency

\* the gate is exhausted: N >= 2 callers hold a permit, none is free and
\* another caller is suspended in acquire()
C1_Witness ==
    /\ Cardinality({i \in Tasks : pc[i] = "holding"}) = maxConcurrency
    /\ maxConcurrency >= 2
    /\ permits = 0
    /\ Len(waitQueue) >= 1

InFlight == {i \in Tasks : pc[i] \in {"running", "settled"}}

\* C2: during a batch with ceiling C >= 1, at every moment the number of item
\* operations that have started and whose callback has not yet finished is at
\* most C (the operations started and not yet settled are among them).
C2_BatchCeiling == Cardinality(InFlight) <= maxConcurrency

\* more items than permits: C operations are in flight while an item waits
\* and an earlier item has already finished
C2_Witness ==
    /\ nItems > maxConcurrency
    /\ Cardinality({i \in Tasks : pc[i] = "running"}) = maxConcurrency
    /\ Len(waitQueue) >= 1
    /\ \E i \in Tasks : pc[i] = "done"

\* C3: when the batch returns, the results array has length n and results[i]
\* is the outcome of input item i, whatever the order the items finished in.
C3_IndexAligned ==
    batch = "returned" =>
        /\ Len(results) = nItems
        /\ \A i \in 1..nItems : outcome[i] \in Outcomes(i) /\ results[i] = outcome[i]

\* a batch of at least three items returned although a later item finished
\* before the first one
C3_Witness ==
    /\ batch = "returned"
    /\ nItems >= 3
    /\ order[1] # 1
    /\ order[nItems] # nItems

Permitted == {i \in Tasks : pc[i] \in {"granted", "running", "settled"}}

\* C4: the failure of items never makes the batch call fail and never keeps
\* another item from running: the batch is never rejected, every permit is
\* either free or held by an unfinished item (a failed item gave its permit
\* back), an item waits only while all permits are held, and at return every
\* item has run to its outcome with every success value in its slot.
C4_FailureIsolation ==
    /\ batch # "rejected"
    /\ \A i \in 1..nItems : promises[i] # "rejected"
    /\ permits + Cardinality(Permitted) = maxConcurrency
    /\ (Len(waitQueue) > 0 => permits = 0 /\ Permitted # {})
    /\ batch = "returned" =>
         \A i \in 1..nItems :
            /\ pc[i] = "done"
            /\ outcome[i].kind = "value" => results[i] = [kind |-> "value", of |-> i]

\* a batch with more items than permits returned although the item that
\* finished first failed; an item that had to wait for a permit succeeded
C4_Witness ==
    /\ batch = "returned"
    /\ nItems > maxConcurrency
    /\ outcome[order[1]].kind = "error"
    /\ \E i \in 1..nItems : i > maxConcurrency /\ outcome[i].kind = "value"

\* ------------------------------------------------------------ claims C5..C7
Is500(o) == ~o.ok /\ o.hasResponse /\ o.status = 500

\* a failure the transport is to retry: a transient network failure
\* (connection reset, timeout, connection refused, name resolution), a 5xx
\* or a 429 response
Transient(o) ==
    /\ ~o.ok
    /\ \/ ~o.hasResponse /\ o.code \in {"ECONNRESET", "ETIMEDOUT", "ECONNREFUSED", "ENOTFOUND"}
       \/ o.hasResponse /\ o.status \in {429, 500, 503}

\* C5: with maxRetries = R and an endpoint that answers every attempt with
\* 500, the call makes exactly R+1 attempts and then fails: never more than
\* R+1 attempts, never a return, and no failure before attempt R+1 settled.
C5_RetryBound ==
    (\A j \in 1..Len(history) : Is500(history[j])) =>
        /\ attempts <= retries + 1
        /\ call # "returned"
        /\ call = "failed" <=> Len(history) = retries + 1

\* maxRetries = 3, four attempts answered 500, the call has failed
C5_Witness ==
    /\ retries = 3
    /\ call = "failed"
    /\ attempts = 4
    /\ Len(history) = 4
    /\ \A j \in 1..4 : Is500(history[j])

\* C6: whatever maxRetries is, a call whose first attempt fails with a 4xx
\* status other than 429, or with any failure that is neither transient nor
\* 5xx/429, has failed after exactly one attempt and is never retried.
C6_NoRetryOnClientError ==
    (Len(history) >= 1 /\ ~history[1].ok /\ ~Transient(history[1])) =>
        /\ call = "failed"
        /\ attempts = 1
        /\ Len(history) = 1
        /\ thrown # NoError

\* maxRetries = 3 and the first attempt answered 404
C6_Witness ==
    /\ retries = 3
    /\ Len(history) = 1
    /\ history[1].hasResponse /\ history[1].status = 404
    /\ call = "failed"

\* C7: if the first k attempts fail with retryable failures, k <= maxRetries,
\* the call has not failed; if attempt k+1 then succeeds, the call returns
\* that attempt's data after exactly k+1 attempts and no error is thrown.
C7_RetryThenSuccess ==
    /\ (Len(history) <= retries /\ \A j \in 1..Len(history) : Transient(history[j]))
          => call \notin {"failed", "returned"} /\ thrown = NoError
    /\ (Len(history) >= 1 /\ history[Len(history)].ok) =>
          /\ call = "returned"
          /\ returned = history[Len(history)].data
          /\ attempts = Len(history)
          /\ thrown = NoError

\* two retryable failures of different kinds, then a success on attempt 3
C7_Witness ==
    /\ call = "returned"
    /\ Len(history) = 3
    /\ history[1].code = "ECONNRESET"
    /\ history[2].hasResponse /\ history[2].status = 429
    /\ returned = "d2"

\* ----------------------------------------------------------- claims C8..C10
\* the resident key whose last successful get or set is the oldest, as <<key>>
\* (<<>> for an empty cache)
Oldest ==
    IF accessOrder = <<>> THEN <<>>
    ELSE <<(CHOOSE e \in {accessOrder[i] : i \in 1..Len(accessOrder)} :
              \A j \in 1..Len(accessOrder) : e.order <= accessOrder[j].order).key>>

IsSetOf(k) == \E v \in Values, ttl \in TtlArgs : Set(k, v, ttl)

\* C8: for every key and every sequence of get, set, delete, clear and sweep
\* on a cache of capacity maxSize >= 1, the cache never holds more than
\* maxSize entries, and a set of a new key into a full cache removes exactly
\* one entry, the least recently used one.
C8_CapacityStep ==
    /\ Cardinality(DOMAIN cache') <= maxSize
    /\ \A k \in Keys :
         (IsSetOf(k) /\ k \notin DOMAIN cache /\ Cardinality(DOMAIN cache) >= maxSize) =>
            /\ Oldest # <<>>
            /\ DOMAIN cache' = ((DOMAIN cache) \ {Oldest[1]}) \cup {k}

C8_Capacity == [][C8_CapacityStep]_vars

\* C9: the entry a set evicts from a full cache is always the one whose last
\* successful get or set is the oldest: inserting N+1 distinct keys without
\* reads evicts exactly the first inserted key, and a key read (hit) after
\* every other resident key's last access is not the one the next insert
\* evicts.
C9_LruStep ==
    \A k \in Keys :
        (IsSetOf(k) /\ Cardinality(DOMAIN cache) >= maxSize) =>
            /\ Oldest # <<>>
            /\ Oldest[1] # k => Oldest[1] \notin DOMAIN cache'
            /\ \A j \in DOMAIN cache : (j # Oldest[1] /\ j # k) => j \in DOMAIN cache'
            /\ (lastGet.result # None /\ lastGet.key # k /\ Cardinality(DOMAIN cache) >= 2)
                  => lastGet.key \in DOMAIN cache'

C9_LruEviction == [][C9_LruStep]_vars

\* the entry of key k is logically present at time t
Live(c, k, t) == k \in DOMAIN c /\ t - c[k].createdAt <= c[k].ttl

\* C10 as stated: an entry set at time t0 with the ttl argument d is live at
\* every time t with t - t0 <= d and absent at every time t with t - t0 > d.
C10_TtlArgumentStep ==
    \A k \in Keys, v \in Values, ttl \in TtlArgs :
        (ttl # <<>> /\ Set(k, v, ttl)) =>
            \A t \in now..(MaxTime + 1) : Live(cache', k, t) <=> t - now <= ttl[1]

SetArgs(k) ==
    IF accessCounter' = accessCounter + 1 /\ hits' = hits /\ k \in DOMAIN cache'
      THEN {ttl \in TtlArgs : \E v \in Values : Set(k, v, ttl)}
      ELSE {}

\* C10, amended: an entry set at time t0 is stored with TTL d, the ttl
\* argument when it is a positive number and the configured default when it
\* is omitted or 0. get returns its value at every time t with t - t0 <= d
\* (while it is not evicted or deleted) and reports it absent, removing it, at
\* every time t with t - t0 > d, swept or not; a logically absent key stays
\* absent until the next set of that key.
C10_TtlStep ==
    /\ \A k \in Keys :
         LET args == SetArgs(k)
         IN /\ \A ttl \in args :
                  /\ cache'[k].createdAt = now
                  /\ cache'[k].ttl = (IF ttl # <<>> /\ ttl[1] > 0 THEN ttl[1] ELSE cfgTtl)
            /\ (~Live(cache, k, now) /\ Live(cache', k, now')) => args # {}
    /\ \A k \in Keys :
         (lastGet'.key = k /\ Get(k)) =>
            IF Live(cache, k, now)
              THEN lastGet'.result = cache[k].value /\ Live(cache', k, now')
              ELSE lastGet'.result = None /\ k \notin DOMAIN cache'

CacheKeyOf(c) == CacheKey(platform, dcall[c].req)

\* C12: a dispatch that misses the cache calls the upstream, the result is in
\* the cache under the key of (provider, operation, args) before the dispatch
\* returns, and a dispatch started while an entry is live under its key takes
\* that entry, makes no upstream call and returns the cached data.
C12_DispatchStep ==
    \A c \in Calls :
        /\ (dcall[c].pc = "lookup" /\ dcall[c].hit = NoResult /\ dcall'[c].pc # "lookup") =>
              (dcall'[c].pc = "upstream" /\ upstreamCalls' = upstreamCalls + 1)
        /\ (dcall[c].pc = "upstream" /\ dcall'[c].pc \notin {"upstream", "failed"}) =>
              /\ dcall'[c].pc = "wrote"
              /\ CacheKeyOf(c) \in DOMAIN pcache'
              /\ pcache'[CacheKeyOf(c)] = dcall'[c].res
        /\ (dcall[c].fetched /\ dcall[c].pc # "returned" /\ dcall'[c].pc = "returned") =>
              dcall[c].pc = "wrote"
        /\ (dcall[c].pc = "idle" /\ dcall'[c].pc = "lookup"
              /\ CacheKey(platform, dcall'[c].req) \in DOMAIN pcache) =>
              dcall'[c].hit = pcache[CacheKey(platform, dcall'[c].req)]
        /\ (dcall[c].pc = "lookup" /\ dcall[c].hit # NoResult /\ dcall'[c].pc # "lookup") =>
              /\ dcall'[c].pc = "returned"
              /\ dcall'[c].res.data = dcall[c].hit.data
              /\ ~dcall'[c].fetched
              /\ upstreamCalls' = upstreamCalls

C13_CacheTag ==
    \A c \in Calls :
        dcall[c].pc = "returned" => (dcall[c].res.cached <=> dcall[c].hit # NoResult)

\* C14: while the addressed provider is not registered, every dispatch, batch
\* or warmup made has failed at once with the "not available" error, no
\* upstream call was made, nothing was cached and the aggregate performance
\* record is as initialised.
C14_UnknownProvider ==
    platform \notin adapters =>
        /\ \A c \in Calls :
              /\ dcall[c].pc \in {"idle", "failed"}
              /\ dcall[c].pc = "failed" => dcall[c].err = "not available"
              /\ ~dcall[c].fetched
        /\ upstreamCalls = 0
        /\ pcache = <<>>
        /\ perf = InitializeMetrics

\* a search and a warmup addressed to the unregistered provider have failed
C14_Witness ==
    /\ platform \notin adapters
    /\ dcall[1].pc = "failed" /\ dcall[1].req.op = "search"
    /\ dcall[2].pc = "failed" /\ dcall[2].req.op = "warmupCache"

\* -------------------------------------------------------------- claim C15
\* C15: searchAll never raises and returns only when every provider's call
\* has settled; the returned map has exactly one entry for each targeted
\* registered provider, that provider's result if its search succeeded and
\* its error if it failed; an entry, once written, is changed by no other
\* provider's outcome.
C15_FanoutStep ==
    /\ fpos' \in {"idle", "waiting", "returned"}
    /\ fpos' = "returned" =>
          /\ \A p \in Platforms : fpc'[p] # "searching"
          /\ DOMAIN fresults' = ftargets' \cap adapters
          /\ \A p \in DOMAIN fresults' :
                /\ fresults'[p].of = p
                /\ fresults'[p].kind = "result" <=> fpc'[p] = "fulfilled"
                /\ fresults'[p].kind = "error" <=> fpc'[p] = "caught"
    /\ \A p \in DOMAIN fresults : p \in DOMAIN fresults' /\ fresults'[p] = fresults[p]

C15_Fanout == [][C15_FanoutStep]_vars

\* a fan-out over three providers returned: the second failed, the others
\* succeeded
C15_Witness ==
    /\ fpos = "returned"
    /\ ftargets = {"netease", "kuwo", "qq"}
    /\ DOMAIN fresults = ftargets
    /\ fresults["netease"].kind = "result"
    /\ fresults["kuwo"].kind = "error"
    /\ fresults["qq"].kind = "result"

\* -------------------------------------------------------------- claim C17
Probed == {p \in Platforms : hpc[p] \in {"ok", "failed"}}

\* C17: a probed provider is healthy iff its probe search succeeded, the
\* probe took less than 5000 ms and the transport's error rate is below 0.1;
\* degraded iff the search succeeded and one of the two thresholds is
\* reached; unhealthy iff the search failed.
C17_Classification ==
    \A p \in Probed :
        LET h == healthStatus[p]
            st == httpStats[p]
            below == /\ h.responseTime < 5000
                     /\ (st.requestCount = 0 \/ 10 * st.errorCount < st.requestCount)
        IN /\ h.status = "healthy" <=> (hpc[p] = "ok" /\ below)
           /\ h.status = "degraded" <=> (hpc[p] = "ok" /\ ~below)
           /\ h.status = "unhealthy" <=> hpc[p] = "failed"

\* four probes settled: one healthy just under both thresholds, one degraded
\* by a response time of exactly 5000, one degraded by an error rate of
\* exactly 1/10, and one unhealthy
C17_Witness ==
    /\ Probed = Platforms
    /\ \E p \in Platforms :
          /\ healthStatus[p].status = "healthy"
          /\ healthStatus[p].responseTime = 4999
          /\ httpStats[p].requestCount = 11 /\ httpStats[p].errorCount = 1
    /\ \E p \in Platforms :
          /\ healthStatus[p].status = "degraded"
          /\ healthStatus[p].responseTime = 5000
          /\ httpStats[p].requestCount = 11 /\ httpStats[p].errorCount = 1
    /\ \E p \in Platforms :
          /\ healthStatus[p].status = "degraded"
          /\ healthStatus[p].responseTime = 4999
          /\ httpStats[p].requestCount = 10 /\ httpStats[p].errorCount = 1
    /\ \E p \in Platforms : healthStatus[p].status = "unhealthy"

\* -------------------------------------------------------------- claim C18
\* C18: getHealthStatus never raises; when it returns, the map holds exactly
\* one status for each registered provider, the one that provider's probe
\* produced, and the status of a provider whose probe failed is unhealthy.
C18_HealthMap ==
    /\ hpos \in {"idle", "waiting", "returned"}
    /\ hpos = "returned" =>
          /\ DOMAIN hstatuses = adapters
          /\ \A p \in adapters :
                /\ hpc[p] \in {"ok", "failed"}
                /\ hstatuses[p] = healthStatus[p]
                /\ hpc[p] = "failed" => hstatuses[p].status = "unhealthy"

\* getHealthStatus returned although the probe of every one of the four
\* registered providers failed
C18_Witness ==
    /\ hpos = "returned"
    /\ adapters = Platforms
    /\ \A p \in Platforms : hpc[p] = "failed"

\* -------------------------------------------------------------- claim C19
\* C19: once destroy() has returned, no periodic task (health probing,
\* metrics sampling, expired-entry sweep) fires again, the transport of every
\* provider that was registered has been torn down, and no provider is
\* registered.
C19_TeardownStep ==
    destroyed =>
        /\ ticks' = ticks
        /\ torn = sweepTimers
        /\ adapters = {}

C19_Teardown == [][C19_TeardownStep]_vars

\* -------------------------------------------------------------- claim C20
\* C20: a logical transport call, whatever number of attempts it makes, has
\* increased requestCount by exactly 1 when it completes, errorCount by
\* exactly 1 iff it ended in failure, and has added a response time to the
\* accumulator exactly once.
C20_OncePerCall ==
    call \in {"returned", "failed"} =>
        /\ requestCount = 1
        /\ httpErrorCount = (IF call = "failed" THEN 1 ELSE 0)
        /\ timeAdds = 1

\* -------------------------------------------------------------- claim C21
\* C21: after any sequence of successful and failed attempts, errorCount is
\* at most requestCount and the errorRate that getMetrics reports (and that
\* healthCheck copies into the HealthStatus) lies in [0, 1].
C21_ErrorRateRange ==
    LET rate == ErrorRateOf([requestCount |-> requestCount, errorCount |-> httpErrorCount])
    IN /\ httpErrorCount <= requestCount
       /\ 0 <= rate[1]
       /\ rate[1] <= rate[2]

\* -------------------------------------------------------------- claim C22
\* the slots of the returned array that hold a value of the given kind (at
\* return every slot has been assigned)
SlotsOf(kind) == {i \in 1..Len(results) : results[i].kind = kind}

\* C22: when a batch over n items returns, successCount is the number of
\* result slots that hold a success value, errorCount the number that hold an
\* error, and the two add up to n, whatever order the items finished in.
C22_BatchCounts ==
    batch = "returned" =>
        /\ successCount = Cardinality(SlotsOf("value"))
        /\ errorCount = Cardinality(SlotsOf("error"))
        /\ successCount + errorCount = nItems

\* a batch of four items returned with two successes and two errors, the
\* third item having finished first and the first item last
C22_Witness ==
    /\ batch = "returned"
    /\ nItems = 4
    /\ successCount = 2
    /\ errorCount = 2
    /\ order[1] = 3
    /\ order[4] = 1

\* -------------------------------------------------------------- claim C23
\* C23: a call made on a transport after its destroy() fails at once with an
\* error: it issues no upstream request and is never left pending.
C23_FailFastStep ==
    (agentsDestroyed /\ call = "idle" /\ call' # "idle") =>
        /\ call' = "failed"
        /\ attempts' = attempts

C23_FailFast == [][C23_FailFastStep]_vars

\* -------------------------------------------------------------- claim C24
\* C24: hits + misses never decreases; a get raises exactly one of hits and
\* misses by exactly 1 (hits iff it returned a value) and no other operation
\* changes either; the hitRate reported is hits / (hits + misses), or 0
\* when both are zero.
C24_StatsStep ==
    /\ hits' + misses' >= hits + misses
    /\ IF lastGet' # NoGet
         THEN IF lastGet'.result # None
                THEN hits' = hits + 1 /\ misses' = misses
                ELSE hits' = hits /\ misses' = misses + 1
         ELSE hits' = hits /\ misses' = misses
    /\ LET rate == HitRate(hits', misses')
       IN IF hits' + misses' = 0
            THEN rate[1] = 0
            ELSE rate[1] * (hits' + misses') = hits' * rate[2]

C24_Stats == [][C24_StatsStep]_vars

\* one hit and one miss have been counted, the miss on an entry that had
\* expired, and other entries were set, deleted or swept in between
C24_Witness ==
    /\ hits = 1
    /\ misses = 1
    /\ lastGet # NoGet
    /\ lastGet.result = None
    /\ now = MaxTime
    /\ accessCounter = MaxAccess

\* -------------------------------------------------------------- claim C25
Suspended == {j \in Tasks : pc[j] = "waiting"}

\* C25: the wait queue holds the suspended callers in the order they called
\* acquire(); a release() made while callers are suspended hands the permit
\* to the head of the queue, the caller that has waited longest, and leaves
\* the free-permit count as it was; no other suspended caller is resumed.
C25_FifoStep ==
    /\ Suspended = {waitQueue[n] : n \in 1..Len(waitQueue)}
    /\ Cardinality(Suspended) = Len(waitQueue)
    /\ Len(waitQueue') > Len(waitQueue) =>
          \E i \in Tasks : /\ pc[i] = "idle"
                            /\ pc'[i] = "waiting"
                            /\ waitQueue' = Append(waitQueue, i)
    /\ Len(waitQueue') = Len(waitQueue) => waitQueue' = waitQueue
    /\ Len(waitQueue') < Len(waitQueue) =>
          /\ waitQueue' = Tail(waitQueue)
          /\ pc'[Head(waitQueue)] = "granted"
          /\ permits' = permits
    /\ \A j \in Suspended :
          pc'[j] # "waiting" => (j = Head(waitQueue) /\ pc'[j] = "granted")
    /\ (Len(waitQueue) > 0 /\ \E i \in Tasks : pc[i] = "holding" /\ pc'[i] = "idle") =>
          Len(waitQueue') < Len(waitQueue)

C25_Fifo == [][C25_FifoStep]_vars

\* a gate of two permits with none free: one caller holds a permit, one has
\* been handed a permit, and behind them two callers are suspended in an
\* order that is not their index order
C25_Witness ==
    /\ maxConcurrency = 2
    /\ permits = 0
    /\ pc[2] = "holding"
    /\ pc[3] = "granted"
    /\ waitQueue = <<4, 1>>

\* -------------------------------------------------------------- claim C26
\* C26: with a ceiling of at least 1 and every started item operation
\* eventually settling, every item suspended in acquire() is eventually
\* handed a permit and the batch call eventually returns; once it has
\* returned the wait queue is empty and every permit is free.
C26_BatchCompletes ==
    /\ \A i \in Tasks : (pc[i] = "waiting") ~> (pc[i] = "granted")
    /\ <>(batch = "returned")
    /\ [](batch = "returned" => (waitQueue = <<>> /\ permits = maxConcurrency))

\* a batch of four items over one permit has returned, two of its items
\* having failed: three items were suspended on the way
C26_Witness ==
    /\ batch = "returned"
    /\ nItems = 4
    /\ maxConcurrency = 1
    /\ errorCount = 2
    /\ waitQueue = <<>>
    /\ permits = 1

\* -------------------------------------------------------------- claim C27
\* C27: after a failed attempt number a (0-based: a = retryCount) the call
\* goes on to another attempt iff a < maxRetries and the failure is a
\* transient network failure, a 5xx or a 429; in every other case it fails
\* there, and a failed call makes no further attempt.
C27_RetryPredicateStep ==
    /\ (Len(history') > Len(history) /\ ~history'[Len(history')].ok) =>
          LET o == history'[Len(history')]
              again == retryCount < retries /\ Transient(o)
          IN /\ call' = "sleeping" <=> again
             /\ call' = "failed" <=> ~again
             /\ attempts' = attempts
    /\ (call = "sleeping" /\ call' # "sleeping") =>
          /\ call' = "inflight"
          /\ attempts' = attempts + 1
          /\ retryCount' = retryCount + 1
    /\ call = "failed" => (call' = "failed" /\ attempts' = attempts)

C27_RetryPredicate == [][C27_RetryPredicateStep]_vars

\* with maxRetries = 1: a name-resolution failure was retried, and the 503
\* that answered the second attempt ended the call
C27_Witness ==
    /\ retries = 1
    /\ call = "failed"
    /\ Len(history) = 2
    /\ history[1].code = "ENOTFOUND"
    /\ history[2].hasResponse /\ history[2].status = 503
    /\ attempts = 2

\* -------------------------------------------------------------- claim C28
\* C28: the delay slept before retry k (k = retryCount of the failed attempt)
\* is min(baseDelay * 2^k + j, 30000) for a jitter j in [0, 1000]; so it
\* never exceeds 30000 and, below the cap, is at least baseDelay * 2^k.
C28_Backoff ==
    call = "sleeping" =>
        LET exp == retryDelay * 2^retryCount
        IN /\ \E j \in 0..1000 : delay = Min(exp + j, 30000)
           /\ delay <= 30000
           /\ delay < 30000 => delay >= exp

\* the third retry with a base delay of 8000 ms sleeps the cap, 32000 ms and
\* more having been computed
C28_Witness ==
    /\ call = "sleeping"
    /\ retryDelay = 8000
    /\ retryCount = 2
    /\ delay = 30000

\* -------------------------------------------------------------- claim C29
\* the failure that ended the call
FinalFailure == history[Len(history)]

\* C29 as stated: the error of a failed call has retryable true for a
\* transient network failure, a 5xx or a 429, also after the retries were
\* exhausted, and false for any other failure.
C29_RetryableByKind ==
    call = "failed" => (thrown.retryable <=> Transient(FinalFailure))

\* C29: the error of a failed call carries retryable = the retry predicate
\* on the final failure at attempt 0: true iff maxRetries >= 1 and the
\* failure is a transient network failure, a 5xx or a 429 (also after the
\* retries were exhausted); false for any other failure and, with
\* maxRetries = 0, for every failure.
C29_Retryable ==
    call = "failed" =>
        /\ thrown.retryable <=> ShouldRetry(FinalFailure, 0, retries)
        /\ thrown.retryable <=> (retries >= 1 /\ Transient(FinalFailure))

\* the retries were exhausted on a 503 (maxRetries = 2, three attempts) and
\* the error thrown is flagged retryable
C29_Witness ==
    /\ call = "failed"
    /\ retries = 2
    /\ Len(history) = 3
    /\ FinalFailure.hasResponse /\ FinalFailure.status = 503
    /\ thrown.retryable

\* -------------------------------------------------------------- claim C30
\* C30: in every reachable state the keys of the entry map are the keys of
\* the access-order index, each once.
C30_IndexesAgree ==
    /\ DOMAIN cache = MapKeys(accessOrder)
    /\ Len(accessOrder) = Cardinality(DOMAIN cache)

\* a full cache of two entries after three sets, the empty-string key among
\* them, a get having just found an entry gone (expired, evicted or deleted)
C30_Witness ==
    /\ Cardinality(DOMAIN cache) = maxSize
    /\ "" \in DOMAIN cache
    /\ accessCounter = MaxAccess
    /\ lastGet # NoGet
    /\ lastGet.result = None
    /\ misses = 1
    /\ now >= 1

\* -------------------------------------------------------------- claim C31
\* C31: the stored health state of a provider changes only in the step that
\* completes a probe of that provider (no dispatch, cache or timer step
\* changes it), and it goes from unhealthy to healthy only in the step that
\* completes a probe whose search succeeded.
C31_HealthFrameStep ==
    \A p \in Platforms :
        /\ healthStatus'[p] # healthStatus[p] =>
              (Probing(p) /\ hpc'[p] \in {"ok", "failed"})
        /\ (healthStatus[p].status = "unhealthy" /\ healthStatus'[p].status = "healthy") =>
              (hpc[p] \in {"hit", "wrote"} /\ hpc'[p] = "ok")

C31_HealthFrame == [][C31_HealthFrameStep]_vars

\* the second probe of a provider has completed and found it healthy, its
\* transport having served two requests, while a dispatch through the manager
\* has failed
C31_Witness ==
    /\ ticks.health = 2
    /\ hpc[platform] = "ok"
    /\ healthStatus[platform].status = "healthy"
    /\ httpStats[platform] = [requestCount |-> 2, errorCount |-> 0]
    /\ dcall[1].pc = "failed"

\* -------------------------------------------------------------- claim C32
\* C32: before the first probe of a provider has been started its health
\* state is unknown: it is not healthy, degraded or unhealthy.
C32_StartsUnknown ==
    ticks.health = 0 =>
        healthStatus[platform].status \notin {"healthy", "degraded", "unhealthy"}

\* -------------------------------------------------------------- claim C36
\* C36: a probe finds a cache hit exactly when a live entry for its query
\* exists; a probe that found one completes without an upstream request and
\* without touching the transport counters, and is classified healthy or
\* degraded, never unhealthy.
C36_CachedProbeStep ==
    LET p == platform
    IN /\ (~Probing(p) /\ Probing(p)') =>
             (hpc'[p] = "hit" <=> CacheKey(p, ProbeRequest) \in DOMAIN pcache)
       /\ (hpc[p] = "hit" /\ hpc'[p] # "hit") =>
             /\ hpc'[p] = "ok"
             /\ upstreamCalls' = upstreamCalls
             /\ httpStats' = httpStats
             /\ healthStatus'[p].status \in {"healthy", "degraded"}

C36_CachedProbe == [][C36_CachedProbeStep]_vars

\* two probes have completed, the second one successfully, with a single
\* probe request having reached the upstream: the entry it wrote is still
\* live, and a dispatch that went upstream in between has failed
C36_Witness ==
    /\ ticks.health = 2
    /\ hpc[platform] = "ok"
    /\ httpStats[platform].requestCount \in {1, 11}
    /\ httpStats[platform].errorCount \in {0, 1}
    /\ upstreamCalls = 2
    /\ dcall[1].pc = "failed"
    /\ dcall[1].fetched
    /\ CacheKey(platform, ProbeRequest) \in DOMAIN pcache

\* -------------------------------------------------------------- claim C33
\* the dispatches that failed in the adapter and were recorded as failures
FailedDispatches == {c \in Calls : dcall[c].pc = "failed" /\ dcall[c].err = "api"}

\* C33: the aggregate errorRate is exactly the number of failed dispatches
\* divided by requestCount (0 before the first dispatch), and so lies in
\* [0, 1].
C33_ErrorRateExact ==
    /\ perf.err[1] * Max(perf.requestCount, 1) = Cardinality(FailedDispatches) * perf.err[2]
    /\ perf.err[1] <= perf.err[2]

\* -------------------------------------------------------------- claim C34
\* C34: the aggregate averageResponseTime is the arithmetic mean of the
\* response times it has been updated with (0 before the first of them).
C34_MeanExact ==
    perf.avg[1] * Max(perf.timed, 1) = perf.timeSum * perf.avg[2]

\* -------------------------------------------------------------- claim C35
\* C35: in a full cache, set(k, v) of a key k that is already present still
\* runs the eviction: the least-recently-used entry is removed, so when that
\* entry is another key j, j is absent afterwards and the cache holds
\* maxSize - 1 entries.
C35_OverwriteEvictsStep ==
    \A k \in Keys :
        (IsSetOf(k) /\ k \in DOMAIN cache /\ Cardinality(DOMAIN cache) = maxSize
                    /\ Oldest # <<>> /\ Oldest[1] # k) =>
            /\ Oldest[1] \notin DOMAIN cache'
            /\ Cardinality(DOMAIN cache') = maxSize - 1

C35_OverwriteEvicts == [][C35_OverwriteEvictsStep]_vars

\* -------------------------------------------------------------- claim C37
\* another dispatch of the request of call c is between its cache miss and
\* its cache write
MissInFlight(c) ==
    \E b \in Calls \ {c} :
        /\ dcall[b].pc \in {"lookup", "upstream"}
        /\ dcall[b].hit = NoResult
        /\ dcall[b].req = dcall'[c].req

\* C37: overlapping dispatches of the same uncached request are not
\* coalesced: a dispatch that starts while another one of the same request
\* is in flight and the key has no entry misses as well, every dispatch that
\* missed calls the upstream itself, and every dispatch whose upstream call
\* succeeds writes its own result over whatever the key holds, so the entry
\* held in the end is the one of the dispatch that wrote last.
C37_NotCoalescedStep ==
    \A c \in Calls :
        /\ (dcall[c].pc = "idle" /\ dcall'[c].pc # "idle" /\ MissInFlight(c)
               /\ CacheKey(platform, dcall'[c].req) \notin DOMAIN pcache)
             => (dcall'[c].pc = "lookup" /\ dcall'[c].hit = NoResult)
        /\ (dcall[c].pc = "lookup" /\ dcall[c].hit = NoResult /\ dcall'[c].pc # "lookup")
             => (dcall'[c].pc = "upstream" /\ upstreamCalls' = upstreamCalls + 1)
        /\ (dcall[c].pc = "upstream" /\ dcall'[c].pc = "wrote")
             => (/\ CacheKeyOf(c) \in DOMAIN pcache'
                 /\ pcache'[CacheKeyOf(c)] = dcall'[c].res)

Fetched(b) ==
    /\ dcall'[b].fetched
    /\ dcall'[b].pc \in {"wrote", "returned"}
    /\ dcall'[b].res # DefaultLyric

\* C38: no failure outcome is cached. The step in which the upstream call of
\* a search or getSong fails, and the step in which getLyric falls back to
\* its default value, leave the cache as it was; every entry the cache holds
\* is the result of a dispatch whose upstream call succeeded; and a dispatch
\* that starts while its key has no entry goes to the upstream.
C38_FailuresNotCachedStep ==
    /\ \A c \in Calls :
          /\ (dcall[c].pc = "upstream" /\ dcall'[c].pc = "failed") =>
                (dcall[c].req.op \in DispatchOps /\ pcache' = pcache)
          /\ (dcall[c].pc = "upstream" /\ dcall'[c].pc = "returned") =>
                /\ dcall[c].req.op = "getLyric"
                /\ dcall'[c].res = DefaultLyric
                /\ pcache' = pcache
          /\ (dcall[c].pc = "idle" /\ dcall'[c].pc = "lookup"
                 /\ CacheKey(platform, dcall'[c].req) \notin DOMAIN pcache) =>
                dcall'[c].hit = NoResult
          /\ (dcall[c].pc = "lookup" /\ dcall[c].hit = NoResult /\ dcall'[c].pc # "lookup") =>
                (dcall'[c].pc = "upstream" /\ upstreamCalls' = upstreamCalls + 1)
    /\ \A k \in DOMAIN pcache' :
          \E b \in Calls :
             /\ CacheKey(platform, dcall'[b].req) = k
             /\ Fetched(b)
             /\ pcache'[k] = dcall'[b].res

C38_FailuresNotCached == [][C38_FailuresNotCachedStep]_vars

\* getLyric fell back to the default, nothing is cached, and the second,
\* identical getLyric has gone to the upstream as well
C38_Witness ==
    /\ dcall[1].req = LyricRequest /\ dcall[1].pc = "returned"
    /\ dcall[1].fetched /\ dcall[1].res = DefaultLyric
    /\ dcall[2].req = LyricRequest /\ dcall[2].pc = "upstream"
    /\ upstreamCalls = 2
    /\ pcache = <<>>

\* -------------------------------------------------------------- claim C39
\* C39: a provider named in the subset given to searchAll but not registered
\* makes no search and gets no entry, neither a result nor an error; it does
\* not hold the call back, and the map returned has the entries of exactly
\* the registered providers of the subset.
C39_UnregisteredSkipped ==
    /\ \A p \in ftargets \ adapters :
          /\ fpc[p] = "skipped"
          /\ p \notin DOMAIN fresults
    /\ (fpos = "waiting" /\ \A p \in ftargets \cap adapters : fpc[p] \in {"fulfilled", "caught"})
          => ENABLED FReturn
    /\ fpos = "returned" => DOMAIN fresults = ftargets \cap adapters

\* searchAll has returned for a subset naming an unregistered provider next to
\* one whose search succeeded and one whose search failed
C39_Witness ==
    /\ fpos = "returned"
    /\ ftargets \ adapters # {}
    /\ \E p \in ftargets \cap adapters : fresults[p].kind = "result"
    /\ \E p \in ftargets \cap adapters : fresults[p].kind = "error"

\* -------------------------------------------------------------- claim C40
\* the searches a run can make, and the providers whose key has no offset
Searches == {r \in Requests : r.op = "search"}

OffsetBlind == {"netease", "kuwo"}

\* C40: netease and kuwo build the search key from provider, keyword and
\* limit, so searches that differ only in offset have one key, and a search
\* started while an entry of the other offset is live is served that entry;
\* qq and kugou put the offset in the key, so such searches have different
\* keys, and a search is served from the cache only what a search of the same
\* offset has stored.
C40_OffsetInKeyStep ==
    /\ \A r1, r2 \in Searches :
          (CacheKey(platform, r1) = CacheKey(platform, r2))
             <=> (platform \in OffsetBlind \/ r1.offset = r2.offset)
    /\ \A c \in Calls, r0 \in Searches :
          (dcall[c].pc = "idle" /\ dcall'[c].pc = "lookup" /\ dcall'[c].req \in Searches
             /\ CacheKey(platform, r0) \in DOMAIN pcache) =>
             IF platform \in OffsetBlind \/ r0 = dcall'[c].req
               THEN dcall'[c].hit = pcache[CacheKey(platform, r0)]
               ELSE (dcall'[c].hit # NoResult =>
                       CacheKey(platform, dcall'[c].req) \in DOMAIN pcache)
    /\ \A c \in Calls :
          (dcall'[c].req \in Searches /\ dcall'[c].hit # NoResult) =>
             \E b \in Calls \ {c} :
                /\ dcall'[b].req \in Searches
                /\ dcall'[b].fetched
                /\ dcall'[b].res = dcall'[c].hit
                /\ platform \notin OffsetBlind => dcall'[b].req = dcall'[c].req

C40_OffsetInKey == [][C40_OffsetInKeyStep]_vars

\* on netease or kuwo the search of offset 0 fetched d1, and the search of
\* offset 1 that followed was served d1 from the cache, with one upstream call
C40_Witness ==
    /\ platform \in OffsetBlind
    /\ dcall[1].req \in Searches /\ dcall[1].req.offset = 0
    /\ dcall[1].pc = "returned" /\ dcall[1].fetched /\ dcall[1].res.data = "d1"
    /\ dcall[2].req \in Searches /\ dcall[2].req.offset = 1
    /\ dcall[2].pc = "returned" /\ ~dcall[2].fetched /\ dcall[2].res.data = "d1"
    /\ upstreamCalls = 1

====
